---- MODULE Spec2Model ----
(***************************************************************************)
(* asm2x6xtool: the transport layer of src/src/usb.rs (USB Bulk-Only       *)
(* Transport backend: opening, CBW/CSW framing, tag counter, pending flag) *)
(* and of src/src/linux.rs (SCSI-generic passthrough backend), and the     *)
(* device command layer of src/src/asm2x6x.rs on top of them.              *)
(*                                                                         *)
(* A u32 is the record [hi, lo] of its two 16-bit halves, so that values   *)
(* such as 0xdeadbeef and the wrap at 0xffffffff are exact. A byte buffer  *)
(* is the sequence of its runs of equal bytes, so that the 0x17ee0-byte    *)
(* firmware image is exact too.                                            *)
(* Every function of the source is an operator from the state it reads and *)
(* the outcomes of the transport calls it makes to its result, the state   *)
(* it leaves and the I/O calls it performed, composed the way the source   *)
(* composes them with `?`.                                                 *)
(* Spec drives the Backend operations directly, SpecCmd drives them        *)
(* through the command layer, SpecOpen starts before the channel is open.  *)
(***************************************************************************)
EXTENDS Integers, Sequences, FiniteSets, TLC

\* ------------------------------------------------------------------ bounds
\* operations performed on one backend instance
MaxOps == 3
\* the longest CDB a caller passes (one more than the 16 the backends accept)
MaxCdbLen == 17

\* --------------------------------------------------------------------- u32
U32(h, l) == [hi |-> h, lo |-> l]
Zero32 == U32(0, 0)
MaxU32 == U32(65535, 65535)
\* x + 1 modulo 2^32
wrapping_add_one(x) ==
    IF x.lo < 65535 THEN U32(x.hi, x.lo + 1)
    ELSE IF x.hi < 65535 THEN U32(x.hi + 1, 0)
    ELSE Zero32
\* u32::to_le_bytes
to_le_bytes(x) == <<x.lo % 256, x.lo \div 256, x.hi % 256, x.hi \div 256>>
\* u32::from_le_bytes
from_le_bytes(b0, b1, b2, b3) == U32(b2 + 256 * b3, b0 + 256 * b1)

\* ------------------------------------------------------------ byte buffers
\* A byte buffer (&[u8], &mut [u8], Vec<u8>) is the sequence of its runs:
\* [n, v] stands for n consecutive bytes of value v, no run is empty and no
\* two neighbours carry the same value, so equal buffers are equal sequences.
BufRun(n, v) == [n |-> n, v |-> v]
\* vec![v; n]
Fill(n, v) == IF n = 0 THEN <<>> ELSE <<BufRun(n, v)>>
\* b followed by n bytes of value v
AppendRun(b, n, v) ==
    IF n = 0 THEN b
    ELSE IF Len(b) > 0 /\ b[Len(b)].v = v
         THEN [b EXCEPT ![Len(b)] = BufRun(b[Len(b)].n + n, v)]
         ELSE Append(b, BufRun(n, v))
\* a followed by b
RECURSIVE Concat(_, _)
Concat(a, b) ==
    IF b = <<>> THEN a ELSE Concat(AppendRun(a, b[1].n, b[1].v), Tail(b))
\* the buffer of the bytes listed in s
RECURSIVE Bytes(_)
Bytes(s) ==
    IF s = <<>> THEN <<>> ELSE Concat(Fill(1, s[1]), Bytes(Tail(s)))
\* b.len()
RECURSIVE BufLen(_)
BufLen(b) == IF b = <<>> THEN 0 ELSE b[1].n + BufLen(Tail(b))
\* &b[..k]
RECURSIVE Take(_, _)
Take(b, k) ==
    IF k = 0 \/ b = <<>> THEN <<>>
    ELSE IF b[1].n >= k THEN Fill(k, b[1].v)
    ELSE Concat(Fill(b[1].n, b[1].v), Take(Tail(b), k - b[1].n))
\* &b[k..]
RECURSIVE Drop(_, _)
Drop(b, k) ==
    IF k = 0 \/ b = <<>> THEN b
    ELSE IF b[1].n > k THEN <<BufRun(b[1].n - k, b[1].v)>> \o Tail(b)
    ELSE Drop(Tail(b), k - b[1].n)
\* b[i], counted from 0
RECURSIVE At(_, _)
At(b, i) == IF i < b[1].n THEN b[1].v ELSE At(Tail(b), i - b[1].n)
\* n as u32, for a length that fits
AsU32(n) == U32(n \div 65536, n % 65536)
\* what a read of up to BufLen(b) bytes leaves in b when the device delivers
\* the bytes of payload: they overwrite the front of b, the rest stays
Received(b, payload) ==
    LET got == Take(payload, BufLen(b))
    IN  Concat(got, Drop(b, BufLen(got)))

\* --------------------------------------------------------------- constants
CBW_SIGNATURE == U32(17218, 21333)      \* 0x43425355
CSW_SIGNATURE == U32(21314, 21333)      \* 0x53425355
InitialTag == U32(57005, 48879)         \* 0xdeadbeef
ToDevice == 0
ToHost == 128
EP_OUT == 2
EP_IN == 129
MaxCdb == 16
CSW_LEN == 13
SG_DXFER_NONE == "SG_DXFER_NONE"
SG_DXFER_TO_DEV == "SG_DXFER_TO_DEV"
SG_DXFER_FROM_DEV == "SG_DXFER_FROM_DEV"

\* ------------------------------------------------------------------ errors
\* Result<(), Error>: kind "Ok" or the Error variant; status and residue are
\* the payloads of CSWIOError(u8) and CSWResidue(u32). "Panic" is the abort of
\* an arithmetic overflow in a build with overflow checks.
Res(k, s, r) == [kind |-> k, status |-> s, residue |-> r]
Ok == Res("Ok", 0, Zero32)
Err(k) == Res(k, 0, Zero32)
CSWIOError(s) == Res("CSWIOError", s, Zero32)
CSWResidue(r) == Res("CSWResidue", 0, r)
Panic == Res("Panic", 0, Zero32)

\* ------------------------------------------------------------------- state
VARIABLES
    backend,          \* "usb" | "sg": the variant chosen when the channel was opened
    overflow_checks,  \* whether the build traps integer overflow (debug profile)
    tag,              \* usb::Device.tag
    pending,          \* usb::Device.pending
    alive,            \* FALSE once the process has panicked
    nops,             \* operations performed so far
    last,             \* the last operation: its inputs, result and I/O calls
    cbwTags,          \* history: the tags of the CBWs built so far, in order
    cbwOk,            \* history: for each of these CBWs, whether its write succeeded
    wire,             \* history: the CBWs written and the CSWs read on the bulk
                      \* endpoints so far, in order, each CSW with its verdict
    cmd,              \* the last operation of asm2x6x::Device: its inputs, the
                      \* backend calls and pauses it made, its result
    opening           \* the steps usb::Device::new performed and its result

vars == <<backend, overflow_checks, tag, pending, alive, nops, last, cbwTags, cbwOk, wire,
          cmd, opening>>

\* ------------------------------------------------------- inputs and outcomes
\* the CDBs callers pass: lengths 0, 6 (the command layer's), 16 and 17
CdbLens == {0, 6, MaxCdb, MaxCdbLen}
Cdb(n) == [i \in 1..n |-> 223 + i]
Cdbs == {Cdb(n) : n \in CdbLens}
\* the data buffers callers pass: 6 and 0x12345678 bytes, each byte 0xcc
DataBufs == {Fill(6, 204), Fill(305419896, 204)}
\* the bytes of a firmware version window a device may hold
FwWindows == {<<36, 1, 21, 3, 2, 1>>, <<171, 12, 255, 0, 154, 16>>}
\* what a device may deliver for a read into data: as many bytes as asked
\* (0xa5 each, or a version window when 6 are asked), or half as many (0x5a)
Payloads(data) ==
    {Fill(BufLen(data), 165), Fill(BufLen(data) \div 2, 90)}
        \cup (IF BufLen(data) = 6 THEN {Bytes(w) : w \in FwWindows} ELSE {})
\* a backend instance is observed fresh (Device::new) or late in its life, two
\* transfers before its tag reaches 0xffffffff (0x21524110 transfers after new)
StartTags == {InitialTag, U32(65535, 65534)}

Range(s) == {s[i] : i \in 1..Len(s)}
ZeroBuf == [i \in 1..CSW_LEN |-> 0]
\* what a device may put on the bulk-in endpoint as a CSW
CSWBytes(sig, t, residue, status) ==
    to_le_bytes(sig) \o to_le_bytes(t) \o to_le_bytes(residue) \o <<status>>
Residues == {Zero32, U32(0, 1), U32(256, 0)}
Statuses == {0, 1, 2}
DeviceTags == {wrapping_add_one(tag), U32(1, 2)} \cup Range(cbwTags)
CswBufs ==
    {ZeroBuf} \cup
    {CSWBytes(sig, t, r, st) : sig \in {CSW_SIGNATURE, CBW_SIGNATURE},
                               t \in DeviceTags, r \in Residues, st \in Statuses}
\* outcome of read_bulk for the CSW: a transport error, or 13 bytes
CswReads == {[ok |-> FALSE, bfr |-> ZeroBuf]} \cup {[ok |-> TRUE, bfr |-> b] : b \in CswBufs}
\* outcomes of the transport calls of one USB operation: the CBW write fails,
\* or the data phase fails, or both succeed and the CSW read ends in any way
\* (the outcome of a call that is not made is left at a fixed value)
\* the data phase, when it succeeds, delivers as many bytes as asked and the
\* CSW read ends in any way, or it delivers any payload and a valid CSW follows
UsbEnvs(data) ==
    {[cbw |-> FALSE, data |-> [ok |-> TRUE, payload |-> <<>>],
      csw |-> [ok |-> TRUE, bfr |-> ZeroBuf]],
     [cbw |-> TRUE, data |-> [ok |-> FALSE, payload |-> <<>>],
      csw |-> [ok |-> TRUE, bfr |-> ZeroBuf]]}
    \cup [cbw : {TRUE}, data : [ok : {TRUE}, payload : {Fill(BufLen(data), 165)}],
          csw : CswReads]
    \cup [cbw : {TRUE}, data : [ok : {TRUE}, payload : Payloads(data)],
          csw : {[ok |-> TRUE,
                  bfr |-> CSWBytes(CSW_SIGNATURE, wrapping_add_one(tag), Zero32, 0)]}]

\* ----------------------------------------------------------------- I/O log
\* one transport call: which call, on which endpoint, from which place of the
\* code (site), the bytes written or read where the model tracks them, the
\* buffer length, whether the call succeeded and the pending flag when it was made
Io(call, ep, site, bytes, len, ok, pend) ==
    [call |-> call, ep |-> ep, site |-> site, bytes |-> bytes, len |-> len,
     ok |-> ok, pending |-> pend]
\* what a function returns: its result, the backend state it leaves, its I/O calls
Ret(res, self, io) == [res |-> res, self |-> self, io |-> io]
\* r together with the caller's data buffer as the function leaves it
WithBuf(r, buf) == [res |-> r.res, self |-> r.self, io |-> r.io, buf |-> buf]

\* ------------------------------------------------------------- frame codec
\* the CBW encoder with the tag written most significant byte first
CBWToBytes_be_tag(cbw) ==
    to_le_bytes(CBW_SIGNATURE)
        \o <<cbw.tag.hi \div 256, cbw.tag.hi % 256, cbw.tag.lo \div 256, cbw.tag.lo % 256>>
        \o to_le_bytes(cbw.length)
        \o <<cbw.direction, cbw.lun, cbw.command_length>> \o cbw.command_data

\* impl From<CBW> for [u8; 31]
CBWToBytes(cbw) ==
    to_le_bytes(CBW_SIGNATURE) \o to_le_bytes(cbw.tag) \o to_le_bytes(cbw.length)
        \o <<cbw.direction, cbw.lun, cbw.command_length>> \o cbw.command_data

\* impl TryFrom<&[u8; 13]> for CSW
CSWTryFrom(bfr) ==
    IF from_le_bytes(bfr[1], bfr[2], bfr[3], bfr[4]) # CSW_SIGNATURE
    THEN [res |-> Err("InvalidCSW"),
          csw |-> [tag |-> Zero32, residue |-> Zero32, status |-> 0]]
    ELSE [res |-> Ok,
          csw |-> [tag |-> from_le_bytes(bfr[5], bfr[6], bfr[7], bfr[8]),
                   residue |-> from_le_bytes(bfr[9], bfr[10], bfr[11], bfr[12]),
                   status |-> bfr[13]]]

\* --------------------------------------------------------- USB-BOT backend
\* self.tag += 1: wraps, or panics where the build checks overflow
TagOverflows(self) == overflow_checks /\ self.tag = MaxU32

\* send_cbw without the CDB length check: a longer CDB is cut to 16 bytes
send_cbw_no_length_check(self, cdb, direction, length, wr) ==
    IF self.pending THEN Ret(Err("TransferStillPending"), self, <<>>)
    ELSE IF TagOverflows(self) THEN Ret(Panic, self, <<>>)
    ELSE
        LET command_data == [i \in 1..MaxCdb |-> IF i <= Len(cdb) THEN cdb[i] ELSE 0]
            t == wrapping_add_one(self.tag)
            cbw == [tag |-> t, length |-> length, direction |-> direction, lun |-> 0,
                    command_length |-> Len(cdb), command_data |-> command_data]
            bfr == CBWToBytes(cbw)
            io == <<Io("write_bulk", EP_OUT, "cbw", bfr, U32(0, Len(bfr)), wr, self.pending)>>
        IN  IF ~wr THEN Ret(Err("USB"), [self EXCEPT !.tag = t], io)
            ELSE Ret(Ok, [tag |-> t, pending |-> TRUE], io)

\* send_cbw without the pending check
send_cbw_no_pending_check(self, cdb, direction, length, wr) ==
    IF Len(cdb) > MaxCdb THEN Ret(Err("InvalidCDB"), self, <<>>)
    ELSE IF TagOverflows(self) THEN Ret(Panic, self, <<>>)
    ELSE
        LET command_data == [i \in 1..MaxCdb |-> IF i <= Len(cdb) THEN cdb[i] ELSE 0]
            t == wrapping_add_one(self.tag)
            cbw == [tag |-> t, length |-> length, direction |-> direction, lun |-> 0,
                    command_length |-> Len(cdb), command_data |-> command_data]
            bfr == CBWToBytes(cbw)
            io == <<Io("write_bulk", EP_OUT, "cbw", bfr, U32(0, Len(bfr)), wr, self.pending)>>
        IN  IF ~wr THEN Ret(Err("USB"), [self EXCEPT !.tag = t], io)
            ELSE Ret(Ok, [tag |-> t, pending |-> TRUE], io)

\* send_cbw testing the pending flag before the CDB length
send_cbw_pending_first(self, cdb, direction, length, wr) ==
    IF self.pending THEN Ret(Err("TransferStillPending"), self, <<>>)
    ELSE IF Len(cdb) > MaxCdb THEN Ret(Err("InvalidCDB"), self, <<>>)
    ELSE IF TagOverflows(self) THEN Ret(Panic, self, <<>>)
    ELSE
        LET command_data == [i \in 1..MaxCdb |-> IF i <= Len(cdb) THEN cdb[i] ELSE 0]
            t == wrapping_add_one(self.tag)
            cbw == [tag |-> t, length |-> length, direction |-> direction, lun |-> 0,
                    command_length |-> Len(cdb), command_data |-> command_data]
            bfr == CBWToBytes(cbw)
            io == <<Io("write_bulk", EP_OUT, "cbw", bfr, U32(0, Len(bfr)), wr, self.pending)>>
        IN  IF ~wr THEN Ret(Err("USB"), [self EXCEPT !.tag = t], io)
            ELSE Ret(Ok, [tag |-> t, pending |-> TRUE], io)

\* send_cbw leaving the pending flag as it was after the CBW write
send_cbw_no_pending_set(self, cdb, direction, length, wr) ==
    IF Len(cdb) > MaxCdb THEN Ret(Err("InvalidCDB"), self, <<>>)
    ELSE IF self.pending THEN Ret(Err("TransferStillPending"), self, <<>>)
    ELSE IF TagOverflows(self) THEN Ret(Panic, self, <<>>)
    ELSE
        LET command_data == [i \in 1..MaxCdb |-> IF i <= Len(cdb) THEN cdb[i] ELSE 0]
            t == wrapping_add_one(self.tag)
            cbw == [tag |-> t, length |-> length, direction |-> direction, lun |-> 0,
                    command_length |-> Len(cdb), command_data |-> command_data]
            bfr == CBWToBytes(cbw)
            io == <<Io("write_bulk", EP_OUT, "cbw", bfr, U32(0, Len(bfr)), wr, self.pending)>>
        IN  IF ~wr THEN Ret(Err("USB"), [self EXCEPT !.tag = t], io)
            ELSE Ret(Ok, [tag |-> t, pending |-> self.pending], io)

\* send_cbw putting the tag back when the CBW write fails
send_cbw_restore_tag(self, cdb, direction, length, wr) ==
    IF Len(cdb) > MaxCdb THEN Ret(Err("InvalidCDB"), self, <<>>)
    ELSE IF self.pending THEN Ret(Err("TransferStillPending"), self, <<>>)
    ELSE IF TagOverflows(self) THEN Ret(Panic, self, <<>>)
    ELSE
        LET command_data == [i \in 1..MaxCdb |-> IF i <= Len(cdb) THEN cdb[i] ELSE 0]
            t == wrapping_add_one(self.tag)
            cbw == [tag |-> t, length |-> length, direction |-> direction, lun |-> 0,
                    command_length |-> Len(cdb), command_data |-> command_data]
            bfr == CBWToBytes(cbw)
            io == <<Io("write_bulk", EP_OUT, "cbw", bfr, U32(0, Len(bfr)), wr, self.pending)>>
        IN  IF ~wr THEN Ret(Err("USB"), self, io)
            ELSE Ret(Ok, [tag |-> t, pending |-> TRUE], io)

\* Device::send_cbw; wr: whether write_bulk succeeds
send_cbw(self, cdb, direction, length, wr) ==
    IF Len(cdb) > MaxCdb THEN Ret(Err("InvalidCDB"), self, <<>>)
    ELSE IF self.pending THEN Ret(Err("TransferStillPending"), self, <<>>)
    ELSE IF TagOverflows(self) THEN Ret(Panic, self, <<>>)
    ELSE
        LET command_data == [i \in 1..MaxCdb |-> IF i <= Len(cdb) THEN cdb[i] ELSE 0]
            t == wrapping_add_one(self.tag)
            cbw == [tag |-> t, length |-> length, direction |-> direction, lun |-> 0,
                    command_length |-> Len(cdb), command_data |-> command_data]
            bfr == CBWToBytes(cbw)
            io == <<Io("write_bulk", EP_OUT, "cbw", bfr, U32(0, Len(bfr)), wr, self.pending)>>
        IN  IF ~wr THEN Ret(Err("USB"), [self EXCEPT !.tag = t], io)
            ELSE Ret(Ok, [tag |-> t, pending |-> TRUE], io)

\* recv_csw that reads the CSW a second time when the first read fails
recv_csw_retry(self, rd) ==
    IF ~self.pending THEN Ret(Err("NoTransferPending"), self, <<>>)
    ELSE
        LET rdio == Io("read_bulk", EP_IN, "csw", IF rd.ok THEN rd.bfr ELSE <<>>,
                       U32(0, CSW_LEN), rd.ok, self.pending)
            io == IF rd.ok THEN <<rdio>> ELSE <<rdio, rdio>>
            parsed == CSWTryFrom(rd.bfr)
            csw == parsed.csw
        IN  IF ~rd.ok THEN Ret(Err("USB"), self, io)
            ELSE IF parsed.res # Ok THEN Ret(parsed.res, self, io)
            ELSE IF csw.status # 0 THEN Ret(CSWIOError(csw.status), self, io)
            ELSE IF csw.tag # self.tag THEN Ret(Err("InvalidCSWTag"), self, io)
            ELSE IF csw.residue # Zero32 THEN Ret(CSWResidue(csw.residue), self, io)
            ELSE Ret(Ok, [self EXCEPT !.pending = FALSE], io)

\* recv_csw without the residue check
recv_csw_no_residue_check(self, rd) ==
    IF ~self.pending THEN Ret(Err("NoTransferPending"), self, <<>>)
    ELSE
        LET io == <<Io("read_bulk", EP_IN, "csw", IF rd.ok THEN rd.bfr ELSE <<>>,
                       U32(0, CSW_LEN), rd.ok, self.pending)>>
            parsed == CSWTryFrom(rd.bfr)
            csw == parsed.csw
        IN  IF ~rd.ok THEN Ret(Err("USB"), self, io)
            ELSE IF parsed.res # Ok THEN Ret(parsed.res, self, io)
            ELSE IF csw.status # 0 THEN Ret(CSWIOError(csw.status), self, io)
            ELSE IF csw.tag # self.tag THEN Ret(Err("InvalidCSWTag"), self, io)
            ELSE Ret(Ok, [self EXCEPT !.pending = FALSE], io)

\* recv_csw without the tag check
recv_csw_no_tag_check(self, rd) ==
    IF ~self.pending THEN Ret(Err("NoTransferPending"), self, <<>>)
    ELSE
        LET io == <<Io("read_bulk", EP_IN, "csw", IF rd.ok THEN rd.bfr ELSE <<>>,
                       U32(0, CSW_LEN), rd.ok, self.pending)>>
            parsed == CSWTryFrom(rd.bfr)
            csw == parsed.csw
        IN  IF ~rd.ok THEN Ret(Err("USB"), self, io)
            ELSE IF parsed.res # Ok THEN Ret(parsed.res, self, io)
            ELSE IF csw.status # 0 THEN Ret(CSWIOError(csw.status), self, io)
            ELSE IF csw.residue # Zero32 THEN Ret(CSWResidue(csw.residue), self, io)
            ELSE Ret(Ok, [self EXCEPT !.pending = FALSE], io)

\* recv_csw reading the CSW whether or not a transfer is pending
recv_csw_no_idle_check(self, rd) ==
    IF FALSE THEN Ret(Err("NoTransferPending"), self, <<>>)
    ELSE
        LET io == <<Io("read_bulk", EP_IN, "csw", IF rd.ok THEN rd.bfr ELSE <<>>,
                       U32(0, CSW_LEN), rd.ok, self.pending)>>
            parsed == CSWTryFrom(rd.bfr)
            csw == parsed.csw
        IN  IF ~rd.ok THEN Ret(Err("USB"), self, io)
            ELSE IF parsed.res # Ok THEN Ret(parsed.res, self, io)
            ELSE IF csw.status # 0 THEN Ret(CSWIOError(csw.status), self, io)
            ELSE IF csw.tag # self.tag THEN Ret(Err("InvalidCSWTag"), self, io)
            ELSE IF csw.residue # Zero32 THEN Ret(CSWResidue(csw.residue), self, io)
            ELSE Ret(Ok, [self EXCEPT !.pending = FALSE], io)

\* recv_csw clearing the pending flag whatever the CSW read gives
recv_csw_clears_first(self, rd) ==
    IF ~self.pending THEN Ret(Err("NoTransferPending"), self, <<>>)
    ELSE
        LET io == <<Io("read_bulk", EP_IN, "csw", IF rd.ok THEN rd.bfr ELSE <<>>,
                       U32(0, CSW_LEN), rd.ok, self.pending)>>
            parsed == CSWTryFrom(rd.bfr)
            csw == parsed.csw
        IN  IF ~rd.ok THEN Ret(Err("USB"), [self EXCEPT !.pending = FALSE], io)
            ELSE IF parsed.res # Ok THEN Ret(parsed.res, [self EXCEPT !.pending = FALSE], io)
            ELSE IF csw.status # 0 THEN Ret(CSWIOError(csw.status), [self EXCEPT !.pending = FALSE], io)
            ELSE IF csw.tag # self.tag THEN Ret(Err("InvalidCSWTag"), [self EXCEPT !.pending = FALSE], io)
            ELSE IF csw.residue # Zero32 THEN Ret(CSWResidue(csw.residue), [self EXCEPT !.pending = FALSE], io)
            ELSE Ret(Ok, [self EXCEPT !.pending = FALSE], io)

\* Device::recv_csw; rd: the outcome of read_bulk
recv_csw(self, rd) ==
    IF ~self.pending THEN Ret(Err("NoTransferPending"), self, <<>>)
    ELSE
        LET io == <<Io("read_bulk", EP_IN, "csw", IF rd.ok THEN rd.bfr ELSE <<>>,
                       U32(0, CSW_LEN), rd.ok, self.pending)>>
            parsed == CSWTryFrom(rd.bfr)
            csw == parsed.csw
        IN  IF ~rd.ok THEN Ret(Err("USB"), self, io)
            ELSE IF parsed.res # Ok THEN Ret(parsed.res, self, io)
            ELSE IF csw.status # 0 THEN Ret(CSWIOError(csw.status), self, io)
            ELSE IF csw.tag # self.tag THEN Ret(Err("InvalidCSWTag"), self, io)
            ELSE IF csw.residue # Zero32 THEN Ret(CSWResidue(csw.residue), self, io)
            ELSE Ret(Ok, [self EXCEPT !.pending = FALSE], io)

\* the data phase: write_bulk(0x02, data) or read_bulk(0x81, data)
\* read_bulk stores the bytes it received in data
data_phase(self, direction, data, rd) ==
    LET io == <<Io(IF direction = ToHost THEN "read_bulk" ELSE "write_bulk",
                   IF direction = ToHost THEN EP_IN ELSE EP_OUT,
                   "data", <<>>, AsU32(BufLen(data)), rd.ok, self.pending)>>
    IN  WithBuf(Ret(IF rd.ok THEN Ok ELSE Err("USB"), self, io),
                IF rd.ok /\ direction = ToHost THEN Received(data, rd.payload) ELSE data)

\* `a?; b`: the result of b, which ran from the state a left, if a returned Ok;
\* otherwise a's error, returned at once
Try(a, b) ==
    IF a.res # Ok THEN a
    ELSE Ret(b.res, b.self, a.io \o b.io)

\* Backend::transfer for usb::Device
usb_transfer(self, cdb, env) ==
    LET cbw == send_cbw(self, cdb, ToDevice, Zero32, env.cbw)
    IN  WithBuf(Try(cbw, recv_csw(cbw.self, env.csw)), <<>>)

\* Backend::transfer_to_device for usb::Device
usb_transfer_to_device(self, cdb, data, env) ==
    LET cbw == send_cbw(self, cdb, ToDevice, AsU32(BufLen(data)), env.cbw)
        xfer == data_phase(cbw.self, ToDevice, data, env.data)
        sent == Try(cbw, xfer)
    IN  WithBuf(Try(sent, recv_csw(sent.self, env.csw)),
                IF cbw.res = Ok THEN xfer.buf ELSE data)

\* Backend::transfer_from_device for usb::Device
usb_transfer_from_device(self, cdb, data, env) ==
    LET cbw == send_cbw(self, cdb, ToHost, AsU32(BufLen(data)), env.cbw)
        xfer == data_phase(cbw.self, ToHost, data, env.data)
        rcvd == Try(cbw, xfer)
    IN  WithBuf(Try(rcvd, recv_csw(rcvd.self, env.csw)),
                IF cbw.res = Ok THEN xfer.buf ELSE data)

\* ------------------------------------------------------ opening the channel
\* one call made while opening: which call, its argument (interface, request
\* or endpoint; microseconds for sleep), whether it succeeded, what it returned
Step(call, arg, ok, val) == [call |-> call, arg |-> arg, ok |-> ok, val |-> val]
\* the pause between the steps of Device::new, in microseconds
SETTLE_US == 10000
USBSTORAGE_RESET_REQUEST == 255
\* outcomes of the calls of Device::new: each succeeds or fails, and
\* kernel_driver_active answers yes or no or fails
NewEnvs ==
    [open : BOOLEAN, active : {"yes", "no", "err"}, detach : BOOLEAN, claim : BOOLEAN,
     reset : BOOLEAN, clear_out : BOOLEAN, clear_in : BOOLEAN]
\* what Device::new returns: its result, the calls it made and the Device inside Ok
NewRet(res, steps, dev) == [res |-> res, steps |-> steps, dev |-> dev]

\* Device::new going on to the halt clearing when the reset request has failed
usb_new_reset_unchecked(env) ==
    LET s1 == <<Step("open", 0, env.open, FALSE)>>
        s2 == s1 \o <<Step("kernel_driver_active", 0, env.active # "err",
                           env.active = "yes")>>
        s3 == IF env.active = "yes"
              THEN s2 \o <<Step("detach_kernel_driver", 0, env.detach, FALSE)>>
              ELSE s2
        s4 == s3 \o <<Step("claim_interface", 0, env.claim, FALSE)>>
        s5 == s4 \o <<Step("write_control", USBSTORAGE_RESET_REQUEST, env.reset, FALSE)>>
        s6 == s5 \o <<Step("sleep", SETTLE_US, TRUE, FALSE),
                      Step("clear_halt", EP_OUT, env.clear_out, FALSE)>>
        s7 == s6 \o <<Step("sleep", SETTLE_US, TRUE, FALSE),
                      Step("clear_halt", EP_IN, env.clear_in, FALSE)>>
        s8 == s7 \o <<Step("sleep", SETTLE_US, TRUE, FALSE)>>
    IN  IF ~env.open THEN NewRet(Err("USB"), s1, <<>>)
        ELSE IF env.active = "err" THEN NewRet(Err("USB"), s2, <<>>)
        ELSE IF env.active = "yes" /\ ~env.detach THEN NewRet(Err("USB"), s3, <<>>)
        ELSE IF ~env.claim THEN NewRet(Err("USB"), s4, <<>>)
        ELSE IF ~env.clear_out THEN NewRet(Err("USB"), s6, <<>>)
        ELSE IF ~env.clear_in THEN NewRet(Err("USB"), s7, <<>>)
        ELSE NewRet(Ok, s8, <<[tag |-> InitialTag, pending |-> FALSE]>>)

\* usb::Device::new
usb_new(env) ==
    LET s1 == <<Step("open", 0, env.open, FALSE)>>
        s2 == s1 \o <<Step("kernel_driver_active", 0, env.active # "err",
                           env.active = "yes")>>
        s3 == IF env.active = "yes"
              THEN s2 \o <<Step("detach_kernel_driver", 0, env.detach, FALSE)>>
              ELSE s2
        s4 == s3 \o <<Step("claim_interface", 0, env.claim, FALSE)>>
        s5 == s4 \o <<Step("write_control", USBSTORAGE_RESET_REQUEST, env.reset, FALSE)>>
        s6 == s5 \o <<Step("sleep", SETTLE_US, TRUE, FALSE),
                      Step("clear_halt", EP_OUT, env.clear_out, FALSE)>>
        s7 == s6 \o <<Step("sleep", SETTLE_US, TRUE, FALSE),
                      Step("clear_halt", EP_IN, env.clear_in, FALSE)>>
        s8 == s7 \o <<Step("sleep", SETTLE_US, TRUE, FALSE)>>
    IN  IF ~env.open THEN NewRet(Err("USB"), s1, <<>>)
        ELSE IF env.active = "err" THEN NewRet(Err("USB"), s2, <<>>)
        ELSE IF env.active = "yes" /\ ~env.detach THEN NewRet(Err("USB"), s3, <<>>)
        ELSE IF ~env.claim THEN NewRet(Err("USB"), s4, <<>>)
        ELSE IF ~env.reset THEN NewRet(Err("USB"), s5, <<>>)
        ELSE IF ~env.clear_out THEN NewRet(Err("USB"), s6, <<>>)
        ELSE IF ~env.clear_in THEN NewRet(Err("USB"), s7, <<>>)
        ELSE NewRet(Ok, s8, <<[tag |-> InitialTag, pending |-> FALSE]>>)

\* linux DeviceInfo::open: the device file is opened for reading; the Device
\* holds no transfer state
sg_open(ok) ==
    IF ok THEN NewRet(Ok, <<Step("open", 0, TRUE, FALSE)>>, <<[tag |-> Zero32, pending |-> FALSE]>>)
    ELSE NewRet(Err("IO"), <<Step("open", 0, FALSE, FALSE)>>, <<>>)

\* ---------------------------------------------------- SCSI-generic backend
\* outcome of the SG_IO ioctl: the call itself fails, or it succeeds and the
\* kernel has filled sgbuf (info, status, masked_status, host_status,
\* sb_len_wr) and stored the bytes the device delivered in the data buffer
NoSgEnv ==
    [nix_ok |-> FALSE, info |-> 0, status |-> 0, masked_status |-> 0,
     host_status |-> 0, sb_len_wr |-> 0, payload |-> <<>>]
SgEnvs(data) ==
    {NoSgEnv} \cup
    {[nix_ok |-> TRUE, info |-> i, status |-> st[1], masked_status |-> st[2],
      host_status |-> st[3], sb_len_wr |-> st[4], payload |-> pl] :
        i \in 0..3, pl \in Payloads(data),
        st \in {<<0, 0, 0, 0>>, <<2, 1, 0, 18>>, <<0, 0, 7, 0>>, <<2, 1, 7, 18>>}}
\* sgbuf.info & SG_INFO_OK_MASK != SG_INFO_OK
SgInfoNotOk(info) == info % 2 # 0
\* ioctl_sg_io reporting an error only when the SCSI status is not zero either
ioctl_sg_io_status_only(self, cdb, xfer, env) ==
    IF Len(cdb) > MaxCdb THEN WithBuf(Ret(Err("InvalidCDB"), self, <<>>), xfer.buf)
    ELSE
        LET cmdp == [i \in 1..MaxCdb |-> IF i <= Len(cdb) THEN cdb[i] ELSE 0]
            data0 == IF xfer.dir = SG_DXFER_FROM_DEV THEN Fill(BufLen(xfer.buf), 0)
                     ELSE xfer.buf
            data == IF xfer.dir = SG_DXFER_FROM_DEV /\ env.nix_ok
                    THEN Received(data0, env.payload) ELSE data0
            io == <<Io("ioctl", 0, xfer.dir, cmdp, AsU32(BufLen(data0)), env.nix_ok,
                       self.pending)>>
        IN  IF ~env.nix_ok THEN WithBuf(Ret(Err("Nix"), self, io), xfer.buf)
            ELSE IF SgInfoNotOk(env.info) /\ env.status # 0
                 THEN WithBuf(Ret(Err("SgIoError"), self, io), xfer.buf)
            ELSE WithBuf(Ret(Ok, self, io),
                         IF xfer.dir = SG_DXFER_FROM_DEV
                         THEN Take(data, BufLen(xfer.buf)) ELSE xfer.buf)

\* ioctl_sg_io copying one byte less than the caller's buffer holds
ioctl_sg_io_copy_short(self, cdb, xfer, env) ==
    IF Len(cdb) > MaxCdb THEN WithBuf(Ret(Err("InvalidCDB"), self, <<>>), xfer.buf)
    ELSE
        LET cmdp == [i \in 1..MaxCdb |-> IF i <= Len(cdb) THEN cdb[i] ELSE 0]
            data0 == IF xfer.dir = SG_DXFER_FROM_DEV THEN Fill(BufLen(xfer.buf), 0)
                     ELSE xfer.buf
            data == IF xfer.dir = SG_DXFER_FROM_DEV /\ env.nix_ok
                    THEN Received(data0, env.payload) ELSE data0
            io == <<Io("ioctl", 0, xfer.dir, cmdp, AsU32(BufLen(data0)), env.nix_ok,
                       self.pending)>>
        IN  IF ~env.nix_ok THEN WithBuf(Ret(Err("Nix"), self, io), xfer.buf)
            ELSE IF SgInfoNotOk(env.info)
                 THEN WithBuf(Ret(Err("SgIoError"), self, io), xfer.buf)
            ELSE WithBuf(Ret(Ok, self, io),
                         IF xfer.dir = SG_DXFER_FROM_DEV
                         THEN Concat(Take(data, BufLen(xfer.buf) - 1),
                                     Drop(xfer.buf, BufLen(xfer.buf) - 1))
                         ELSE xfer.buf)

\* Device::ioctl_sg_io; xfer is the TransferBuffer: its direction and the
\* caller's buffer (empty for TransferBuffer::None)
ioctl_sg_io(self, cdb, xfer, env) ==
    IF Len(cdb) > MaxCdb THEN WithBuf(Ret(Err("InvalidCDB"), self, <<>>), xfer.buf)
    ELSE
        LET cmdp == [i \in 1..MaxCdb |-> IF i <= Len(cdb) THEN cdb[i] ELSE 0]
            data0 == IF xfer.dir = SG_DXFER_FROM_DEV THEN Fill(BufLen(xfer.buf), 0)
                     ELSE xfer.buf
            data == IF xfer.dir = SG_DXFER_FROM_DEV /\ env.nix_ok
                    THEN Received(data0, env.payload) ELSE data0
            io == <<Io("ioctl", 0, xfer.dir, cmdp, AsU32(BufLen(data0)), env.nix_ok,
                       self.pending)>>
        IN  IF ~env.nix_ok THEN WithBuf(Ret(Err("Nix"), self, io), xfer.buf)
            ELSE IF SgInfoNotOk(env.info)
                 THEN WithBuf(Ret(Err("SgIoError"), self, io), xfer.buf)
            ELSE WithBuf(Ret(Ok, self, io),
                         IF xfer.dir = SG_DXFER_FROM_DEV
                         THEN Take(data, BufLen(xfer.buf)) ELSE xfer.buf)

\* Backend::transfer / transfer_to_device / transfer_from_device for linux::Device
sg_transfer(self, cdb, env) ==
    ioctl_sg_io(self, cdb, [dir |-> SG_DXFER_NONE, buf |-> <<>>], env)
sg_transfer_to_device(self, cdb, data, env) ==
    ioctl_sg_io(self, cdb, [dir |-> SG_DXFER_TO_DEV, buf |-> data], env)
sg_transfer_from_device(self, cdb, data, env) ==
    ioctl_sg_io(self, cdb, [dir |-> SG_DXFER_FROM_DEV, buf |-> data], env)

\* ----------------------------------------------------------------- actions
Self == [tag |-> tag, pending |-> pending]
IoAt(io, site) == {i \in 1..Len(io) : io[i].site = site}
CbwWritten(io) == \E i \in IoAt(io, "cbw") : io[i].ok
\* the tag field of a CBW on the wire
WireTag(bytes) == from_le_bytes(bytes[5], bytes[6], bytes[7], bytes[8])

\* what the calls of r put on the wire: a CBW written, or a CSW read, which is
\* "accepted" when the call that read it was made with the pending flag set
\* and returned with the flag cleared
WireEvent(r, i) ==
    IF r.io[i].site = "cbw" THEN "cbw"
    ELSE IF i = Len(r.io) /\ r.io[i].pending /\ ~r.self.pending THEN "csw_accepted"
    ELSE "csw_rejected"
WireOf(r) ==
    LET F[i \in 0..Len(r.io)] ==
            IF i = 0 THEN <<>>
            ELSE IF r.io[i].ok /\ r.io[i].site \in {"cbw", "csw"}
                 THEN Append(F[i - 1], WireEvent(r, i))
                 ELSE F[i - 1]
    IN  F[Len(r.io)]

\* no call in progress: the caller holds no result
NoCall == [op |-> "none", cdb |-> <<>>, len |-> Zero32, res |-> Ok, io |-> <<>>,
           tag0 |-> tag, pending0 |-> pending, buf0 |-> <<>>, buf |-> <<>>,
           sg |-> NoSgEnv]

\* the tags of the CBWs the calls of r built
TagsOf(r) ==
    [i \in 1..Cardinality(IoAt(r.io, "cbw")) |->
        WireTag(r.io[CHOOSE j \in IoAt(r.io, "cbw") : TRUE].bytes)]

\* for each of these CBWs, whether write_bulk succeeded
OksOf(r) ==
    [i \in 1..Cardinality(IoAt(r.io, "cbw")) |->
        r.io[CHOOSE j \in IoAt(r.io, "cbw") : TRUE].ok]

\* one call of a backend operation with the caller's buffer data (empty when
\* the operation takes none) and what it leaves behind; sg is the outcome of
\* the passthrough ioctl when the backend is SCSI-generic
Apply(op, cdb, data, sg, r) ==
    /\ nops' = nops + 1
    /\ tag' = r.self.tag
    /\ pending' = r.self.pending
    /\ alive' = (r.res # Panic)
    /\ last' = [op |-> op, cdb |-> cdb, len |-> AsU32(BufLen(data)), res |-> r.res,
                io |-> r.io, tag0 |-> tag, pending0 |-> pending,
                buf0 |-> data, buf |-> r.buf, sg |-> sg]
    /\ cbwTags' = cbwTags \o TagsOf(r)
    /\ cbwOk' = cbwOk \o OksOf(r)
    /\ wire' = wire \o WireOf(r)
    /\ UNCHANGED <<backend, overflow_checks, cmd, opening>>

CanCall(b) ==
    /\ backend = b /\ opening.state = "open"
    /\ alive /\ nops < MaxOps /\ last.op = "none" /\ cmd.op = "none"

\* ---------------------------------------------------- device command layer
\* enum Command
ConfigRead == 224
FlashRead == 226
MemRead == 228
MemWrite == 229
\* read_firmware: the image, its first chunk, the pause after a chunk (ms)
FW_SIZE == 98016
FW_CHUNK1 == 65280
FW_PAUSE_MS == 1000
\* read_config: the configuration block
CONFIG_SIZE == 128
\* read_fw_version: the address of the version window
FW_VERSION_ADDR == U32(0, 2032)

\* a & b and a | b on naturals
RECURSIVE BitAnd(_, _)
BitAnd(a, b) ==
    IF a = 0 \/ b = 0 THEN 0
    ELSE (a % 2) * (b % 2) + 2 * BitAnd(a \div 2, b \div 2)
RECURSIVE BitOr(_, _)
BitOr(a, b) ==
    IF a = 0 THEN b
    ELSE IF b = 0 THEN a
    ELSE (IF a % 2 = 1 \/ b % 2 = 1 THEN 1 ELSE 0) + 2 * BitOr(a \div 2, b \div 2)
And32(x, y) == U32(BitAnd(x.hi, y.hi), BitAnd(x.lo, y.lo))
Or32(x, y) == U32(BitOr(x.hi, y.hi), BitOr(x.lo, y.lo))

\* what the device and the transport do during one backend call, whichever
\* the backend: the command is not accepted, the data does not arrive, the
\* status is lost or reports a failure, or all goes well with some payload
Behaviours ==
    [kind : {"no_command", "no_data", "no_status", "failed"}, payload : {"full"}]
        \cup [kind : {"good"}, payload : {"full", "half", "window"}]
PayloadOf(b, data) ==
    IF b.payload = "half" THEN Fill(BufLen(data) \div 2, 90)
    ELSE IF b.payload = "window" /\ BufLen(data) = 6 THEN Bytes(<<36, 1, 21, 3, 2, 1>>)
    ELSE Fill(BufLen(data), 165)
\* the behaviour as the outcomes of the USB transport calls made from self
UsbEnvOf(self, b, data) ==
    [cbw |-> b.kind # "no_command",
     data |-> [ok |-> b.kind # "no_data", payload |-> PayloadOf(b, data)],
     csw |-> [ok |-> b.kind # "no_status",
              bfr |-> CSWBytes(CSW_SIGNATURE, wrapping_add_one(self.tag), Zero32,
                               IF b.kind = "failed" THEN 1 ELSE 0)]]
\* the behaviour as the outcome of the passthrough ioctl
SgEnvOf(b, data) ==
    [nix_ok |-> b.kind # "no_command",
     info |-> IF b.kind = "good" THEN 0 ELSE 1,
     status |-> IF b.kind = "good" THEN 0 ELSE 2,
     masked_status |-> IF b.kind = "good" THEN 0 ELSE 1,
     host_status |-> IF b.kind = "no_data" THEN 7 ELSE 0,
     sb_len_wr |-> IF b.kind = "failed" THEN 18 ELSE 0,
     payload |-> PayloadOf(b, data)]

\* Box<dyn Backend>: the call goes to the backend the channel was opened with
backend_transfer(self, cdb, b) ==
    IF backend = "usb" THEN usb_transfer(self, cdb, UsbEnvOf(self, b, <<>>))
    ELSE sg_transfer(self, cdb, SgEnvOf(b, <<>>))
backend_transfer_from_device(self, cdb, data, b) ==
    IF backend = "usb" THEN usb_transfer_from_device(self, cdb, data, UsbEnvOf(self, b, data))
    ELSE sg_transfer_from_device(self, cdb, data, SgEnvOf(b, data))

\* one step of a command-layer operation: a backend call (which operation,
\* the CDB, the range [off, off + len) of the operation's buffer it targets,
\* its result and I/O, the target as the call leaves it) or a pause of ms milliseconds
BackendCall(op, cdb, off, data, r) ==
    [op |-> op, cdb |-> cdb, off |-> off, len |-> BufLen(data), ms |-> 0,
     res |-> r.res, io |-> r.io, buf |-> r.buf, tags |-> TagsOf(r), oks |-> OksOf(r),
     wire |-> WireOf(r)]
Sleep(ms) ==
    [op |-> "sleep", cdb |-> <<>>, off |-> 0, len |-> 0, ms |-> ms,
     res |-> Ok, io |-> <<>>, buf |-> <<>>, tags |-> <<>>, oks |-> <<>>, wire |-> <<>>]
\* what a command-layer operation returns: its result, the backend state it
\* leaves, its steps, the caller's buffer as it leaves it (empty when it takes
\* none) and the value inside Ok (none on an error)
CmdRet(res, self, steps, bfr, value) ==
    [res |-> res, self |-> self, steps |-> steps, bfr |-> bfr, value |-> value]

\* read with the address not reduced to its low 17 bits
read_unmasked(self, addr, bfr, b) ==
    LET a == Or32(addr, U32(80, 0))
        cdb == <<MemRead, BufLen(bfr) % 256, a.hi % 256, (a.lo \div 256) % 256,
                 a.lo % 256, 0>>
        r == backend_transfer_from_device(self, cdb, bfr, b)
    IN  CmdRet(r.res, r.self, <<BackendCall("transfer_from_device", cdb, 0, bfr, r)>>,
               r.buf, <<>>)

\* Device::read
read(self, addr, bfr, b) ==
    LET a == Or32(And32(addr, U32(1, 65535)), U32(80, 0))
        cdb == <<MemRead, BufLen(bfr) % 256, a.hi % 256, (a.lo \div 256) % 256,
                 a.lo % 256, 0>>
        r == backend_transfer_from_device(self, cdb, bfr, b)
    IN  CmdRet(r.res, r.self, <<BackendCall("transfer_from_device", cdb, 0, bfr, r)>>,
               r.buf, <<>>)

\* write made as a transfer from the device into an empty buffer
write_as_read(self, addr, value, b) ==
    LET a == Or32(And32(addr, U32(1, 65535)), U32(80, 0))
        cdb == <<MemWrite, value, a.hi % 256, (a.lo \div 256) % 256, a.lo % 256, 0>>
        r == backend_transfer_from_device(self, cdb, <<>>, b)
    IN  CmdRet(r.res, r.self, <<BackendCall("transfer_from_device", cdb, 0, <<>>, r)>>,
               <<>>, <<>>)

\* Device::write
write(self, addr, value, b) ==
    LET a == Or32(And32(addr, U32(1, 65535)), U32(80, 0))
        cdb == <<MemWrite, value, a.hi % 256, (a.lo \div 256) % 256, a.lo % 256, 0>>
        r == backend_transfer(self, cdb, b)
    IN  CmdRet(r.res, r.self, <<BackendCall("transfer", cdb, 0, <<>>, r)>>, <<>>, <<>>)

\* Device::read_fw_version
read_fw_version(self, b) ==
    LET r == read(self, FW_VERSION_ADDR, Fill(6, 0), b)
    IN  IF r.res # Ok THEN CmdRet(r.res, r.self, r.steps, <<>>, <<>>)
        ELSE CmdRet(Ok, r.self, r.steps, <<>>,
                    <<[year |-> At(r.bfr, 0), month |-> At(r.bfr, 1), day |-> At(r.bfr, 2),
                       major |-> At(r.bfr, 3), minor |-> At(r.bfr, 4),
                       patch |-> At(r.bfr, 5)]>>)

\* impl Display for FWVersion: "{:02x}" of a byte, and the whole text, as the
\* sequence of its characters
HexDigits == <<"0", "1", "2", "3", "4", "5", "6", "7", "8", "9", "a", "b", "c", "d", "e", "f">>
Hex02(x) == <<HexDigits[(x \div 16) + 1], HexDigits[(x % 16) + 1]>>
\* the version text with the day first and the year last
fmt_day_first(v) ==
    Hex02(v.day) \o Hex02(v.month) \o Hex02(v.year) \o <<"_">> \o Hex02(v.major)
        \o <<"_">> \o Hex02(v.minor) \o <<"_">> \o Hex02(v.patch)

fmt(v) ==
    Hex02(v.year) \o Hex02(v.month) \o Hex02(v.day) \o <<"_">> \o Hex02(v.major)
        \o <<"_">> \o Hex02(v.minor) \o <<"_">> \o Hex02(v.patch)

\* Device::read_config
read_config(self, b) ==
    LET cdb == <<ConfigRead, 80, 0, 0, 0, 0>>
        bfr == Fill(CONFIG_SIZE, 0)
        r == backend_transfer_from_device(self, cdb, bfr, b)
        steps == <<BackendCall("transfer_from_device", cdb, 0, bfr, r)>>
    IN  IF r.res # Ok THEN CmdRet(r.res, r.self, steps, <<>>, <<>>)
        ELSE CmdRet(Ok, r.self, steps, <<>>, <<r.buf>>)

\* read_firmware without the pause between the two chunks
read_firmware_no_pause(self, b1, b2) ==
    LET bfr0 == Fill(FW_SIZE, 0)
        cdb1 == <<FlashRead, 80, 0, 255, 0, 0>>
        r1 == backend_transfer_from_device(self, cdb1, Take(bfr0, FW_CHUNK1), b1)
        bfr1 == Concat(r1.buf, Drop(bfr0, FW_CHUNK1))
        s1 == <<BackendCall("transfer_from_device", cdb1, 0, Take(bfr0, FW_CHUNK1), r1)>>
        cdb2 == <<FlashRead, 208, 0, 127, 224, 0>>
        r2 == backend_transfer_from_device(r1.self, cdb2, Drop(bfr1, FW_CHUNK1), b2)
        bfr2 == Concat(Take(bfr1, FW_CHUNK1), r2.buf)
        s2 == s1 \o <<BackendCall("transfer_from_device", cdb2, FW_CHUNK1,
                                  Drop(bfr1, FW_CHUNK1), r2)>>
    IN  IF r1.res # Ok THEN CmdRet(r1.res, r1.self, s1, <<>>, <<>>)
        ELSE IF r2.res # Ok THEN CmdRet(r2.res, r2.self, s2, <<>>, <<>>)
        ELSE CmdRet(Ok, r2.self, s2 \o <<Sleep(FW_PAUSE_MS)>>, <<>>, <<bfr2>>)

\* read_firmware going on to the second chunk when the first has failed
read_firmware_continue(self, b1, b2) ==
    LET bfr0 == Fill(FW_SIZE, 0)
        cdb1 == <<FlashRead, 80, 0, 255, 0, 0>>
        r1 == backend_transfer_from_device(self, cdb1, Take(bfr0, FW_CHUNK1), b1)
        bfr1 == Concat(r1.buf, Drop(bfr0, FW_CHUNK1))
        s1 == <<BackendCall("transfer_from_device", cdb1, 0, Take(bfr0, FW_CHUNK1), r1)>>
        cdb2 == <<FlashRead, 208, 0, 127, 224, 0>>
        r2 == backend_transfer_from_device(r1.self, cdb2, Drop(bfr1, FW_CHUNK1), b2)
        bfr2 == Concat(Take(bfr1, FW_CHUNK1), r2.buf)
        s2 == s1 \o <<Sleep(FW_PAUSE_MS),
                      BackendCall("transfer_from_device", cdb2, FW_CHUNK1,
                                  Drop(bfr1, FW_CHUNK1), r2)>>
    IN  IF r2.res # Ok THEN CmdRet(r2.res, r2.self, s2, <<>>, <<>>)
        ELSE CmdRet(r1.res, r2.self, s2 \o <<Sleep(FW_PAUSE_MS)>>, <<>>, <<bfr2>>)

\* Device::read_firmware; b1 and b2 are the behaviours during its two calls
read_firmware(self, b1, b2) ==
    LET bfr0 == Fill(FW_SIZE, 0)
        cdb1 == <<FlashRead, 80, 0, 255, 0, 0>>
        r1 == backend_transfer_from_device(self, cdb1, Take(bfr0, FW_CHUNK1), b1)
        bfr1 == Concat(r1.buf, Drop(bfr0, FW_CHUNK1))
        s1 == <<BackendCall("transfer_from_device", cdb1, 0, Take(bfr0, FW_CHUNK1), r1)>>
        cdb2 == <<FlashRead, 208, 0, 127, 224, 0>>
        r2 == backend_transfer_from_device(r1.self, cdb2, Drop(bfr1, FW_CHUNK1), b2)
        bfr2 == Concat(Take(bfr1, FW_CHUNK1), r2.buf)
        s2 == s1 \o <<Sleep(FW_PAUSE_MS),
                      BackendCall("transfer_from_device", cdb2, FW_CHUNK1,
                                  Drop(bfr1, FW_CHUNK1), r2)>>
    IN  IF r1.res # Ok THEN CmdRet(r1.res, r1.self, s1, <<>>, <<>>)
        ELSE IF r2.res # Ok THEN CmdRet(r2.res, r2.self, s2, <<>>, <<>>)
        ELSE CmdRet(Ok, r2.self, s2 \o <<Sleep(FW_PAUSE_MS)>>, <<>>, <<bfr2>>)

\* no command-layer operation in progress
NoCmd ==
    [op |-> "none", addr |-> Zero32, arg |-> 0, bfr0 |-> <<>>, steps |-> <<>>,
     res |-> Ok, bfr |-> <<>>, value |-> <<>>, text |-> <<>>]

\* the addresses, values and buffers callers pass to read and write
Addrs == {FW_VERSION_ADDR, U32(1, 65535), U32(2, 0), U32(65534, 2032), MaxU32,
          U32(32769, 9029)}
Values == {0, 90, 255}
ReadBufs == {Fill(6, 0), Fill(255, 0), Fill(256, 0)}

\* one command-layer operation and what it leaves behind
ApplyCmd(op, addr, arg, bfr0, r) ==
    LET tagsOf[i \in 0..Len(r.steps)] ==
            IF i = 0 THEN <<>> ELSE tagsOf[i - 1] \o r.steps[i].tags
        oksOf[i \in 0..Len(r.steps)] ==
            IF i = 0 THEN <<>> ELSE oksOf[i - 1] \o r.steps[i].oks
        wireOf[i \in 0..Len(r.steps)] ==
            IF i = 0 THEN <<>> ELSE wireOf[i - 1] \o r.steps[i].wire
    IN  /\ nops' = nops + 1
        /\ tag' = r.self.tag
        /\ pending' = r.self.pending
        /\ alive' = (r.res # Panic)
        /\ cmd' = [op |-> op, addr |-> addr, arg |-> arg, bfr0 |-> bfr0,
                   steps |-> r.steps, res |-> r.res, bfr |-> r.bfr, value |-> r.value,
                   text |-> <<>>]
        /\ last' = [NoCall EXCEPT !.tag0 = r.self.tag, !.pending0 = r.self.pending]
        /\ cbwTags' = cbwTags \o tagsOf[Len(r.steps)]
        /\ cbwOk' = cbwOk \o oksOf[Len(r.steps)]
        /\ wire' = wire \o wireOf[Len(r.steps)]
        /\ UNCHANGED <<backend, overflow_checks, opening>>

CanCommand ==
    /\ opening.state = "open"
    /\ alive /\ nops < MaxOps /\ last.op = "none" /\ cmd.op = "none"

Read ==
    /\ CanCommand
    /\ \E addr \in Addrs, bfr \in ReadBufs, b \in Behaviours :
          \E r \in {read(Self, addr, bfr, b)} : ApplyCmd("read", addr, 0, bfr, r)

Write ==
    /\ CanCommand
    /\ \E addr \in Addrs, value \in Values, b \in Behaviours :
          \E r \in {write(Self, addr, value, b)} : ApplyCmd("write", addr, value, <<>>, r)

ReadFwVersion ==
    /\ CanCommand
    /\ \E b \in Behaviours :
          \E r \in {read_fw_version(Self, b)} :
             ApplyCmd("read_fw_version", Zero32, 0, <<>>, r)

\* the caller displays the version it received
DisplayFwVersion ==
    /\ cmd.op = "read_fw_version" /\ cmd.res = Ok /\ cmd.text = <<>>
    /\ cmd' = [cmd EXCEPT !.text = fmt(cmd.value[1])]
    /\ UNCHANGED <<backend, overflow_checks, tag, pending, alive, nops, last, cbwTags, cbwOk,
                   wire, opening>>

ReadConfig ==
    /\ CanCommand
    /\ \E b \in Behaviours :
          \E r \in {read_config(Self, b)} : ApplyCmd("read_config", Zero32, 0, <<>>, r)

ReadFirmware ==
    /\ CanCommand
    /\ \E b1 \in Behaviours, b2 \in Behaviours :
          \E r \in {read_firmware(Self, b1, b2)} :
             ApplyCmd("read_firmware", Zero32, 0, <<>>, r)

UsbTransfer ==
    /\ CanCall("usb")
    /\ \E cdb \in Cdbs, env \in UsbEnvs(<<>>) :
          \E r \in {usb_transfer(Self, cdb, env)} : Apply("transfer", cdb, <<>>, NoSgEnv, r)

UsbTransferToDevice ==
    /\ CanCall("usb")
    /\ \E cdb \in Cdbs, data \in DataBufs :
          \E env \in UsbEnvs(<<>>) :
             \E r \in {usb_transfer_to_device(Self, cdb, data, env)} :
                Apply("transfer_to_device", cdb, data, NoSgEnv, r)

UsbTransferFromDevice ==
    /\ CanCall("usb")
    /\ \E cdb \in Cdbs, data \in DataBufs :
          \E env \in UsbEnvs(data) :
             \E r \in {usb_transfer_from_device(Self, cdb, data, env)} :
                Apply("transfer_from_device", cdb, data, NoSgEnv, r)

SgTransfer ==
    /\ CanCall("sg")
    /\ \E cdb \in Cdbs, env \in SgEnvs(<<>>) :
          \E r \in {sg_transfer(Self, cdb, env)} : Apply("transfer", cdb, <<>>, env, r)

SgTransferToDevice ==
    /\ CanCall("sg")
    /\ \E cdb \in Cdbs, data \in DataBufs :
          \E env \in SgEnvs(<<>>) :
             \E r \in {sg_transfer_to_device(Self, cdb, data, env)} :
                Apply("transfer_to_device", cdb, data, env, r)

SgTransferFromDevice ==
    /\ CanCall("sg")
    /\ \E cdb \in Cdbs, data \in DataBufs :
          \E env \in SgEnvs(data) :
             \E r \in {sg_transfer_from_device(Self, cdb, data, env)} :
                Apply("transfer_from_device", cdb, data, env, r)

\* the channel is open and its opening was not observed
NotOpened == [state |-> "open", res |-> Ok, steps |-> <<>>, dev |-> <<>>]

\* Device::new (usb) / Info::open (linux): the backend as the session finds it
Init ==
    /\ backend \in {"usb", "sg"}
    /\ overflow_checks \in BOOLEAN
    /\ tag \in StartTags
    /\ pending = FALSE
    /\ alive = TRUE
    /\ nops = 0
    /\ last = NoCall
    /\ cbwTags = <<>>
    /\ cbwOk = <<>>
    /\ wire = <<>>
    /\ cmd = NoCmd
    /\ opening = NotOpened

\* the caller takes the result of the call; the next call starts from there
Return ==
    /\ last.op # "none" \/ cmd.op # "none"
    /\ last' = [NoCall EXCEPT !.tag0 = tag, !.pending0 = pending]
    /\ cmd' = NoCmd
    /\ UNCHANGED <<backend, overflow_checks, tag, pending, alive, nops, cbwTags, cbwOk, wire,
                   opening>>

Next ==
    \/ UsbTransfer
    \/ UsbTransferToDevice
    \/ UsbTransferFromDevice
    \/ SgTransfer
    \/ SgTransferToDevice
    \/ SgTransferFromDevice
    \/ Return

Spec == Init /\ [][Next]_vars

\* Device::recv_csw called on its own, in Idle or Pending
UsbRecvCsw ==
    /\ CanCall("usb")
    /\ \E rd \in CswReads :
          \E r \in {WithBuf(recv_csw(Self, rd), <<>>)} :
             Apply("recv_csw", <<>>, <<>>, NoSgEnv, r)

\* the Backend operations together with the status-receive step on its own
NextRecv ==
    \/ UsbRecvCsw
    \/ Next

SpecRecv == Init /\ [][NextRecv]_vars

\* the channel before it is opened: no backend instance exists yet
Closed == [state |-> "closed", res |-> Ok, steps |-> <<>>, dev |-> <<>>]

InitClosed ==
    /\ backend \in {"usb", "sg"}
    /\ overflow_checks \in BOOLEAN
    /\ tag = Zero32
    /\ pending = FALSE
    /\ alive = TRUE
    /\ nops = 0
    /\ last = NoCall
    /\ cbwTags = <<>>
    /\ cbwOk = <<>>
    /\ wire = <<>>
    /\ cmd = NoCmd
    /\ opening = Closed

\* the outcome r of opening the channel: the backend instance, if any
Opened(r) ==
    /\ opening' = [state |-> IF r.res = Ok THEN "open" ELSE "failed", res |-> r.res,
                   steps |-> r.steps, dev |-> r.dev]
    /\ tag' = IF r.res = Ok THEN r.dev[1].tag ELSE tag
    /\ pending' = IF r.res = Ok THEN r.dev[1].pending ELSE pending
    /\ last' = [NoCall EXCEPT !.tag0 = tag', !.pending0 = pending']
    /\ UNCHANGED <<backend, overflow_checks, alive, nops, cbwTags, cbwOk, wire, cmd>>

UsbNew ==
    /\ backend = "usb" /\ opening.state = "closed"
    /\ \E env \in NewEnvs : \E r \in {usb_new(env)} : Opened(r)

SgOpen ==
    /\ backend = "sg" /\ opening.state = "closed"
    /\ \E ok \in BOOLEAN : \E r \in {sg_open(ok)} : Opened(r)

\* the backend from the opening of the channel on
NextOpen ==
    \/ UsbNew
    \/ SgOpen
    \/ Next

SpecOpen == InitClosed /\ [][NextOpen]_vars

\* the backend driven by the device command layer of asm2x6x::Device
NextCmd ==
    \/ Read
    \/ Write
    \/ ReadFwVersion
    \/ DisplayFwVersion
    \/ ReadConfig
    \/ ReadFirmware
    \/ Return

SpecCmd == Init /\ [][NextCmd]_vars

\* ------------------------------------------------------------------ claims
\* a call of a USB-BOT operation has returned (or aborted) and its record is held
UsbReturned == backend = "usb" /\ last.op # "none"
\* the fields of the 13 bytes read as CSW, as laid out on the wire
WireCswSig(b) == from_le_bytes(b[1], b[2], b[3], b[4])
WireCswTag(b) == from_le_bytes(b[5], b[6], b[7], b[8])
WireCswResidue(b) == from_le_bytes(b[9], b[10], b[11], b[12])
WireCswStatus(b) == b[13]
\* the CSWs the last operation received
CswsReceived == {last.io[i].bytes : i \in {j \in IoAt(last.io, "csw") : last.io[j].ok}}
\* the tags of the CBWs the last operation wrote successfully
CbwTagsWritten == {WireTag(last.io[i].bytes) : i \in {j \in IoAt(last.io, "cbw") : last.io[j].ok}}

\* C1: every 13-byte CSW received while a transfer is pending is decided by the
\* first failing check in the order signature, tag, residue, status: wrong
\* signature gives InvalidCSW; right signature and a tag other than the
\* backend's tag gives InvalidCSWTag whatever residue and status are; right tag
\* and nonzero residue gives CSWResidue(residue) whatever the status is; right
\* tag, zero residue and nonzero status gives CSWIOError(status).
C1_CswCheckOrder ==
    UsbReturned =>
        \A b \in CswsReceived :
            /\ WireCswSig(b) # CSW_SIGNATURE => last.res = Err("InvalidCSW")
            /\ (WireCswSig(b) = CSW_SIGNATURE /\ WireCswTag(b) # tag)
                   => last.res = Err("InvalidCSWTag")
            /\ (WireCswSig(b) = CSW_SIGNATURE /\ WireCswTag(b) = tag
                    /\ WireCswResidue(b) # Zero32)
                   => last.res = CSWResidue(WireCswResidue(b))
            /\ (WireCswSig(b) = CSW_SIGNATURE /\ WireCswTag(b) = tag
                    /\ WireCswResidue(b) = Zero32 /\ WireCswStatus(b) # 0)
                   => last.res = CSWIOError(WireCswStatus(b))

\* a CSW that answers the CBW written by the same operation and reports success
ValidCswFor(b) ==
    /\ WireCswSig(b) = CSW_SIGNATURE
    /\ CbwTagsWritten = {WireCswTag(b)}
    /\ WireCswResidue(b) = Zero32
    /\ WireCswStatus(b) = 0

\* C2: a USB-BOT transfer operation returns success only if the CSW it read has
\* the CSW signature, the tag of the CBW it just sent, residue 0 and status 0;
\* and the pending flag is cleared (found FALSE after having been set) only then.
C2_SuccessOnlyOnValidCsw ==
    UsbReturned =>
        ((last.res = Ok \/ (~pending /\ (last.pending0 \/ CbwWritten(last.io))))
            => /\ last.res = Ok
               /\ CswsReceived # {}
               /\ \A b \in CswsReceived : ValidCswFor(b))

C2_Witness ==
    /\ UsbReturned /\ last.op = "transfer_from_device" /\ last.res = Ok /\ ~pending
    /\ \E b \in CswsReceived : ValidCswFor(b)

\* C3: the tag of the CBW of each successive transfer is the tag of the previous
\* transfer plus 1 modulo 2^32, for any sequence of transfers, the step from
\* 0xffffffff to 0 included, and no transfer fails at the wrap.
C3_TagsIncrementAndWrap ==
    UsbReturned =>
        /\ \A i \in 2..Len(cbwTags) : cbwTags[i] = wrapping_add_one(cbwTags[i - 1])
        /\ (last.tag0 = MaxU32 /\ ~last.pending0 /\ Len(last.cdb) <= MaxCdb)
               => (last.res # Panic /\ cbwTags[Len(cbwTags)] = Zero32)

\* the tags of the transfers before the current one
EarlierTags == {cbwTags[i] : i \in 1..(Len(cbwTags) - 1)}
\* a well-formed CSW (signature, residue 0, status 0) bearing an earlier tag
StaleCsw(b) ==
    /\ WireCswSig(b) = CSW_SIGNATURE
    /\ WireCswResidue(b) = Zero32
    /\ WireCswStatus(b) = 0
    /\ WireCswTag(b) \in EarlierTags
    /\ WireCswTag(b) \notin CbwTagsWritten

\* C4: a CSW that is otherwise well-formed but carries the tag of an earlier
\* transfer of the same backend instance instead of the current CBW's tag is
\* rejected: the operation does not succeed and reports InvalidCSWTag.
C4_StaleTagRejected ==
    UsbReturned =>
        \A b \in CswsReceived :
            StaleCsw(b) => (last.res = Err("InvalidCSWTag") /\ pending)

C4_Witness ==
    /\ UsbReturned /\ last.res = Err("InvalidCSWTag")
    /\ \E b \in CswsReceived : StaleCsw(b)

\* C5: any of the three USB-BOT operations started with a CDB of at most 16
\* bytes while the pending flag is set fails with TransferStillPending, performs
\* no bulk write and no bulk read, and leaves tag and pending flag unchanged.
C5_StillPendingNoIo ==
    (UsbReturned /\ last.pending0 /\ Len(last.cdb) <= MaxCdb) =>
        /\ last.res = Err("TransferStillPending")
        /\ last.io = <<>>
        /\ tag = last.tag0
        /\ pending = last.pending0

C5_Witness ==
    /\ UsbReturned /\ last.pending0 /\ Len(last.cdb) <= MaxCdb
    /\ last.op = "transfer_to_device"
    /\ last.res = Err("TransferStillPending")

\* C6: on both backends a transfer operation called with a CDB longer than 16
\* bytes fails with InvalidCDB before any I/O (no bulk transfer, no ioctl), and
\* on the USB-BOT backend tag and pending flag are left unchanged.
C6_LongCdbRejected ==
    (last.op # "none" /\ Len(last.cdb) > MaxCdb) =>
        /\ last.res = Err("InvalidCDB")
        /\ last.io = <<>>
        /\ tag = last.tag0
        /\ pending = last.pending0

C6_Witness ==
    /\ UsbReturned /\ Len(last.cdb) > MaxCdb /\ ~last.pending0
    /\ last.res = Err("InvalidCDB") /\ last.io = <<>>

\* C7: on one USB-BOT backend instance, between any two successful CBW writes
\* there is a CSW read that cleared the pending flag.
C7_NoSecondCbwBeforeCsw ==
    backend = "usb" =>
        \A i, j \in 1..Len(wire) :
            (i < j /\ wire[i] = "cbw" /\ wire[j] = "cbw")
                => \E k \in (i + 1)..(j - 1) : wire[k] = "csw_accepted"

C7_Witness ==
    /\ backend = "usb"
    /\ \E i, j \in 1..Len(wire) : i < j /\ wire[i] = "cbw" /\ wire[j] = "cbw"

\* the fields of the 31 bytes written as CBW, as laid out on the wire
WireCbwLength(b) == from_le_bytes(b[9], b[10], b[11], b[12])
WireCbwDirection(b) == b[13]
\* the call of the operation's I/O log at position i
IsCall(i, call, ep, site) ==
    /\ i <= Len(last.io)
    /\ last.io[i].call = call /\ last.io[i].ep = ep /\ last.io[i].site = site
IsCbw(i, length, direction) ==
    /\ IsCall(i, "write_bulk", EP_OUT, "cbw")
    /\ WireCbwLength(last.io[i].bytes) = length
    /\ WireCbwDirection(last.io[i].bytes) = direction
    /\ ~last.io[i].pending
\* a data-phase call of the given length, made with the pending flag set
IsData(i, call, ep, length) ==
    /\ IsCall(i, call, ep, "data")
    /\ last.io[i].len = length
    /\ last.io[i].pending
\* the I/O of each operation when nothing fails
HappyIo ==
    /\ last.op = "transfer" =>
           /\ Len(last.io) = 2
           /\ IsCbw(1, Zero32, ToDevice)
           /\ IsCall(2, "read_bulk", EP_IN, "csw")
    /\ last.op = "transfer_to_device" =>
           /\ Len(last.io) = 3
           /\ IsCbw(1, last.len, ToDevice)
           /\ IsData(2, "write_bulk", EP_OUT, last.len)
           /\ IsCall(3, "read_bulk", EP_IN, "csw")
    /\ last.op = "transfer_from_device" =>
           /\ Len(last.io) = 3
           /\ IsCbw(1, last.len, ToHost)
           /\ IsData(2, "read_bulk", EP_IN, last.len)
           /\ IsCall(3, "read_bulk", EP_IN, "csw")
\* every transport call the operation made succeeded, and a CSW it read answers
\* its CBW with residue 0 and status 0
NothingFailed ==
    /\ \A i \in 1..Len(last.io) : last.io[i].ok
    /\ \A b \in CswsReceived :
           /\ WireCswSig(b) = CSW_SIGNATURE
           /\ WireCswTag(b) = wrapping_add_one(last.tag0)
           /\ WireCswResidue(b) = Zero32
           /\ WireCswStatus(b) = 0

\* C8: started in Idle with a CDB of at most 16 bytes, every transport call
\* succeeding and a valid CSW returned, each USB-BOT operation performs exactly
\* its I/O in order (CBW; data phase for the two data operations; CSW), with the
\* pending flag set after the CBW write and before the data phase, and ends in
\* Idle with the tag incremented by exactly 1.
C8_HappyPath ==
    (UsbReturned /\ ~last.pending0 /\ Len(last.cdb) <= MaxCdb /\ NothingFailed) =>
        /\ last.res = Ok
        /\ HappyIo
        /\ ~pending
        /\ tag = wrapping_add_one(last.tag0)

\* the error a failed transport call returns
TransportError(e) == IF e.call = "ioctl" THEN Err("Nix") ELSE Err("USB")
\* at most one call from each place of the code, a failed call is the last one
\* and its error is the operation's result, and an operation rejected by a check
\* before the first call made none
NoRetry ==
    /\ \A site \in {"cbw", "data", "csw"} : Cardinality(IoAt(last.io, site)) <= 1
    /\ \A i \in 1..Len(last.io) :
           ~last.io[i].ok => (i = Len(last.io) /\ last.res = TransportError(last.io[i]))
    /\ last.res \in {Err("InvalidCDB"), Err("TransferStillPending")} => last.io = <<>>
    /\ (last.res # Ok /\ last.io # <<>> /\ last.io[Len(last.io)].site = "data")
           => ~last.io[Len(last.io)].ok

\* C9 as stated: no error is retried: at most one CBW write, one data-phase
\* transfer and one CSW read on USB, exactly one passthrough ioctl on
\* SCSI-generic, and the first failing step's error is returned with no later I/O.
C9_NoRetryExactlyOneIoctl ==
    last.op # "none" =>
        /\ NoRetry
        /\ backend = "sg" => Len(last.io) = 1

\* C9 amended: as above, with exactly one passthrough ioctl on SCSI-generic when
\* the CDB is at most 16 bytes and none when it is longer.
C9_NoRetry ==
    last.op # "none" =>
        /\ NoRetry
        /\ backend = "sg" => Len(last.io) = (IF Len(last.cdb) <= MaxCdb THEN 1 ELSE 0)

C9_Witness ==
    /\ UsbReturned /\ last.op = "transfer_from_device"
    /\ Len(last.io) = 2 /\ last.io[1].ok /\ ~last.io[2].ok
    /\ last.res = Err("USB")

\* byte k (0 the least significant) of a u32
U32Byte(x, k) ==
    IF k < 2 THEN (x.lo \div (256 ^ k)) % 256 ELSE (x.hi \div (256 ^ (k - 2))) % 256
\* the direction the operation asks for
OpDirection == IF last.op = "transfer_from_device" THEN ToHost ELSE ToDevice

\* C10: for every tag, transfer length, direction and CDB of length 0 to 16 the
\* CBW is 31 bytes: signature at 0, tag at 4, length at 8 (4 bytes little-endian
\* each), direction at 12 (0x00 to-device, 0x80 to-host), lun 0 at 13, CDB length
\* at 14, CDB at 15..31 zero-padded; decoding the fields gives back the same
\* tag, length, direction, lun and CDB bytes.
C10_CbwLayout ==
    UsbReturned =>
        \A i \in IoAt(last.io, "cbw") :
            LET b == last.io[i].bytes
                t == wrapping_add_one(last.tag0)
            IN  /\ Len(b) = 31
                /\ <<b[1], b[2], b[3], b[4]>> = <<85, 83, 66, 67>>
                /\ \A k \in 0..3 : /\ b[5 + k] = U32Byte(t, k)
                                   /\ b[9 + k] = U32Byte(last.len, k)
                /\ b[13] = OpDirection /\ b[13] \in {0, 128}
                /\ b[14] = 0
                /\ b[15] = Len(last.cdb)
                /\ \A j \in 1..16 :
                       b[15 + j] = (IF j <= Len(last.cdb) THEN last.cdb[j] ELSE 0)
                /\ WireTag(b) = t
                /\ WireCbwLength(b) = last.len
                /\ SubSeq(b, 16, 15 + b[15]) = last.cdb

C10_Witness ==
    /\ UsbReturned /\ last.op = "transfer_from_device"
    /\ last.tag0 = InitialTag /\ Len(last.cdb) = 6 /\ last.len = U32(4660, 22136)
    /\ \E i \in IoAt(last.io, "cbw") :
           SubSeq(last.io[i].bytes, 5, 13) = <<240, 190, 173, 222, 120, 86, 52, 18, 128>>

\* ------------------------------------------------------------ read_firmware
\* the steps of the last read_firmware that are backend calls, in order
FwCalls == SelectSeq(cmd.steps, LAMBDA st : st.op # "sleep")
\* the steps are a first transfer of n1 bytes into [0, n1), a pause, a second
\* transfer of n2 bytes into [n1, n1 + n2) and a pause, and the two targets
\* make up the image of 0x17ee0 bytes
FwTwoChunks(n1, n2) ==
    /\ Len(cmd.steps) = 4
    /\ Len(FwCalls) = 2
    /\ \A i \in {1, 3} : cmd.steps[i].op = "transfer_from_device"
    /\ \A i \in {2, 4} : cmd.steps[i].op = "sleep" /\ cmd.steps[i].ms > 0
    /\ cmd.steps[1].off = 0 /\ cmd.steps[1].len = n1
    /\ cmd.steps[3].off = cmd.steps[1].off + cmd.steps[1].len
    /\ cmd.steps[3].len = n2
    /\ cmd.steps[3].off + cmd.steps[3].len = 98016

\* C11 as stated: a successful read_firmware issues exactly two
\* transfer_from_device calls, of 0xff00 and 0x08e0 bytes in that order, whose
\* targets cover [0, 0x17ee0) with no gap and no overlap, and pauses after each.
C11_FirmwareChunksAsStated ==
    (cmd.op = "read_firmware" /\ cmd.res = Ok) => FwTwoChunks(65280, 2272)

\* C11 (amended): a successful read_firmware issues exactly two
\* transfer_from_device calls, of 0xff00 and 0x7fe0 bytes in that order, whose
\* targets cover [0, 0x17ee0) with no gap and no overlap, and pauses after each.
C11_FirmwareChunks ==
    (cmd.op = "read_firmware" /\ cmd.res = Ok) => FwTwoChunks(65280, 32736)

C11_Witness ==
    /\ cmd.op = "read_firmware" /\ cmd.res = Ok /\ backend = "usb"
    /\ Len(cmd.steps) = 4 /\ cmd.steps[3].len = 32736
    /\ BufLen(cmd.value[1]) = 98016

\* C12: read_firmware attempts each chunk at most once and the first exactly
\* once; when the first chunk's transfer fails the second is never issued and
\* that error is returned; when the second fails that error is returned and no
\* further transfer is made.
C12_ChunkFailureAborts ==
    cmd.op = "read_firmware" =>
        /\ Len(FwCalls) \in {1, 2}
        /\ FwCalls[1].off = 0
        /\ \A i, j \in 1..Len(FwCalls) : FwCalls[i].off = FwCalls[j].off => i = j
        /\ FwCalls[1].res # Ok => (Len(FwCalls) = 1 /\ cmd.res = FwCalls[1].res)
        /\ FwCalls[1].res = Ok =>
               /\ Len(FwCalls) = 2
               /\ FwCalls[2].off = 65280
               /\ cmd.res = FwCalls[2].res
        /\ cmd.res # Ok => cmd.steps[Len(cmd.steps)].res = cmd.res

C12_Witness ==
    /\ cmd.op = "read_firmware" /\ Len(cmd.steps) = 3
    /\ cmd.steps[1].res = Ok /\ cmd.steps[3].res = Err("USB")
    /\ cmd.res = Err("USB")

\* C13: when the first chunk's transfer succeeded and the second fails, the
\* bytes received for the first chunk remain available to the caller of
\* read_firmware: what it is handed holds them in [0, 0xff00).
C13_FirstChunkKept ==
    (/\ cmd.op = "read_firmware"
     /\ Len(FwCalls) = 2 /\ FwCalls[1].res = Ok /\ FwCalls[2].res # Ok)
        => /\ cmd.value # <<>>
           /\ Take(cmd.value[1], 65280) = FwCalls[1].buf

\* ------------------------------------------------------------ read and write
\* addr mod 2^17, and that value OR 0x500000, as numbers
Low17(addr) == (addr.hi % 2) * 65536 + addr.lo
MemAddr(addr) == 5242880 + Low17(addr)

\* C14: for every 32-bit addr, read and write build a 6-byte CDB whose byte 0
\* is 0xe4 (read) or 0xe5 (write), whose bytes 2, 3, 4 are
\* (addr mod 2^17) OR 0x500000 most significant byte first and whose byte 5 is
\* zero; addresses that agree in their low 17 bits give identical CDBs.
C14_MemCdbAddress ==
    cmd.op \in {"read", "write"} =>
        LET cdb == cmd.steps[1].cdb
        IN  /\ Len(cdb) = 6
            /\ cdb[1] = (IF cmd.op = "read" THEN 228 ELSE 229)
            /\ cdb[3] = MemAddr(cmd.addr) \div 65536
            /\ cdb[4] = (MemAddr(cmd.addr) \div 256) % 256
            /\ cdb[5] = MemAddr(cmd.addr) % 256
            /\ cdb[6] = 0
            /\ \A other \in Addrs :
                   Low17(other) = Low17(cmd.addr) =>
                       /\ cmd.op = "read" =>
                              \A b \in Behaviours :
                                  read(Self, other, cmd.bfr0, b).steps[1].cdb = cdb
                       /\ cmd.op = "write" =>
                              \A b \in Behaviours :
                                  write(Self, other, cmd.arg, b).steps[1].cdb = cdb

C14_Witness ==
    /\ cmd.op = "read" /\ cmd.addr = U32(65534, 2032)
    /\ cmd.steps[1].cdb = <<228, 6, 80, 7, 240, 0>>
    /\ \E other \in Addrs : other # cmd.addr /\ Low17(other) = Low17(cmd.addr)

\* C15: for every buffer passed to read(addr, buf), byte 1 of the memory-read
\* CDB equals buf.len(), the number of bytes transfer_from_device is asked to
\* transfer.
C15_ReadLengthInCdb ==
    cmd.op = "read" =>
        /\ cmd.steps[1].op = "transfer_from_device"
        /\ cmd.steps[1].len = BufLen(cmd.bfr0)
        /\ cmd.steps[1].cdb[2] = cmd.steps[1].len

\* C16: write(addr, value) makes exactly one backend call, transfer, with value
\* in byte 1 of the CDB; on the USB-BOT backend the CBW has transfer length 0
\* and direction ToDevice and no data phase takes place.
C16_WriteIsTransfer ==
    cmd.op = "write" =>
        /\ Len(cmd.steps) = 1
        /\ cmd.steps[1].op = "transfer"
        /\ cmd.steps[1].cdb[2] = cmd.arg
        /\ backend = "usb" =>
               \A i \in 1..Len(cmd.steps[1].io) :
                   LET e == cmd.steps[1].io[i]
                   IN  /\ e.site \in {"cbw", "csw"}
                       /\ e.site = "cbw" =>
                              /\ WireCbwLength(e.bytes) = Zero32
                              /\ WireCbwDirection(e.bytes) = 0

C16_Witness ==
    /\ cmd.op = "write" /\ backend = "usb" /\ cmd.res = Ok /\ cmd.arg = 90
    /\ Len(cmd.steps[1].io) = 2
    /\ cmd.steps[1].io[1].site = "cbw" /\ cmd.steps[1].io[2].site = "csw"

\* ------------------------------------------------- SCSI-generic completion
\* the last call was made on the SCSI-generic backend and its passthrough
\* ioctl returned
SgCompleted ==
    /\ backend = "sg" /\ last.op # "none"
    /\ Len(last.io) = 1 /\ last.io[1].call = "ioctl" /\ last.io[1].ok

\* C17: on the SCSI-generic backend, when the passthrough call returns and the
\* completion info has the OK bit absent, the operation returns SgIoError
\* whatever the SCSI status, masked status, host status and sense length are,
\* and a from-device caller's buffer is left as it was.
C17_NotOkIsSgIoError ==
    (SgCompleted /\ last.sg.info % 2 = 1) =>
        /\ last.res = Err("SgIoError")
        /\ last.buf = last.buf0

C17_Witness ==
    /\ SgCompleted /\ last.op = "transfer_from_device"
    /\ last.sg.info = 1 /\ last.sg.status = 0 /\ last.sg.masked_status = 0
    /\ last.sg.host_status = 0 /\ last.sg.sb_len_wr = 0
    /\ last.sg.payload = Fill(6, 165) /\ last.buf0 = Fill(6, 204)
    /\ last.res = Err("SgIoError")

\* C18: on the SCSI-generic backend, a from-device request completing with the
\* OK bit set copies exactly buf.len() bytes of the data buffer the kernel
\* filled (the bytes delivered, then zeroes) into the caller's buffer and
\* returns success; a no-data or to-device request completing with the OK bit
\* set returns success and writes no caller buffer.
C18_OkCopiesWholeBuffer ==
    (SgCompleted /\ last.sg.info % 2 = 0) =>
        /\ last.res = Ok
        /\ BufLen(last.buf) = BufLen(last.buf0)
        /\ last.op = "transfer_from_device" =>
               last.buf = Take(Concat(last.sg.payload, Fill(BufLen(last.buf0), 0)),
                               BufLen(last.buf0))
        /\ last.op \in {"transfer", "transfer_to_device"} => last.buf = last.buf0

C18_Witness ==
    /\ SgCompleted /\ last.op = "transfer_from_device" /\ last.sg.info = 2
    /\ last.buf0 = Fill(6, 204)
    /\ last.buf = Bytes(<<90, 90, 90, 0, 0, 0>>)
    /\ last.res = Ok

\* ------------------------------------------------------ opening the channel
\* the calls of a complete Device::new, by name and argument, when a kernel
\* driver is active on the interface or not
NewCalls(active) ==
    <<<<"open", 0>>, <<"kernel_driver_active", 0>>>>
        \o (IF active THEN <<<<"detach_kernel_driver", 0>>>> ELSE <<>>)
        \o <<<<"claim_interface", 0>>, <<"write_control", 255>>, <<"sleep", 10000>>,
             <<"clear_halt", 2>>, <<"sleep", 10000>>, <<"clear_halt", 129>>,
             <<"sleep", 10000>>>>

\* C19: opening the USB-BOT backend runs its steps once each and in order:
\* detach the kernel driver only if one is active, claim the interface, the
\* reset control request, a delay, clear halt on bulk-out, a delay, clear halt
\* on bulk-in, a delay. A failing step is the last one made and no backend
\* instance is produced; on success the backend starts Idle.
C19_UsbInitSequence ==
    (backend = "usb" /\ opening.state \in {"open", "failed"}) =>
        LET st == opening.steps
            made == [i \in 1..Len(st) |-> <<st[i].call, st[i].arg>>]
            active == Len(st) >= 2 /\ st[2].ok /\ st[2].val
        IN  /\ Len(st) >= 1 /\ Len(st) <= Len(NewCalls(active))
            /\ made = SubSeq(NewCalls(active), 1, Len(st))
            /\ \A i \in 1..(Len(st) - 1) : st[i].ok
            /\ opening.state = "failed" <=> ~st[Len(st)].ok
            /\ opening.state = "failed" =>
                   /\ opening.res # Ok /\ opening.dev = <<>>
                   /\ nops = 0 /\ last.op = "none" /\ cmd.op = "none"
            /\ opening.state = "open" =>
                   /\ opening.res = Ok
                   /\ Len(st) = Len(NewCalls(active))
                   /\ opening.dev = <<[tag |-> U32(57005, 48879), pending |-> FALSE]>>

C19_Witness ==
    /\ backend = "usb" /\ opening.state = "failed"
    /\ Len(opening.steps) = 5
    /\ opening.steps[2].val /\ opening.steps[3].call = "detach_kernel_driver"
    /\ opening.steps[5].call = "write_control" /\ ~opening.steps[5].ok

\* ---------------------------------------------------------- read_fw_version
\* the byte written as the two lowercase hexadecimal digits hi and lo
LowerHex == <<"0", "1", "2", "3", "4", "5", "6", "7", "8", "9", "a", "b", "c", "d", "e", "f">>
HexByte(hi, lo) ==
    16 * (CHOOSE n \in 0..15 : LowerHex[n + 1] = hi)
        + (CHOOSE n \in 0..15 : LowerHex[n + 1] = lo)

\* C20: read_fw_version makes one read of a 6-byte window; for every window
\* b0..b5 it returns year b0, month b1, day b2, major b3, minor b4, patch b5,
\* displayed as YYMMDD_MAJ_MIN_PATCH with two lowercase hexadecimal digits per
\* field, so that 24 01 15 03 02 01 reads "240115_03_02_01"; when the read
\* fails its error is returned and no version is produced.
C20_FwVersion ==
    cmd.op = "read_fw_version" =>
        /\ Len(cmd.steps) = 1
        /\ cmd.steps[1].op = "transfer_from_device"
        /\ cmd.steps[1].cdb[1] = 228
        /\ cmd.steps[1].len = 6
        /\ cmd.res = cmd.steps[1].res
        /\ cmd.res # Ok => (cmd.value = <<>> /\ cmd.text = <<>>)
        /\ cmd.res = Ok =>
               LET w == cmd.steps[1].buf
                   v == cmd.value[1]
                   t == cmd.text
               IN  /\ <<v.year, v.month, v.day, v.major, v.minor, v.patch>>
                          = [i \in 1..6 |-> At(w, i - 1)]
                   /\ t # <<>> =>
                          /\ Len(t) = 15
                          /\ \A i \in {7, 10, 13} : t[i] = "_"
                          /\ \A i \in (1..15) \ {7, 10, 13} :
                                 \E n \in 1..16 : LowerHex[n] = t[i]
                          /\ <<HexByte(t[1], t[2]), HexByte(t[3], t[4]), HexByte(t[5], t[6]),
                               HexByte(t[8], t[9]), HexByte(t[11], t[12]),
                               HexByte(t[14], t[15])>> = [i \in 1..6 |-> At(w, i - 1)]
                          /\ w = Bytes(<<36, 1, 21, 3, 2, 1>>) =>
                                 t = <<"2", "4", "0", "1", "1", "5", "_", "0", "3", "_",
                                       "0", "2", "_", "0", "1">>

C20_Witness ==
    /\ cmd.op = "read_fw_version" /\ cmd.res = Ok
    /\ cmd.steps[1].buf = Bytes(<<36, 1, 21, 3, 2, 1>>)
    /\ cmd.text = <<"2", "4", "0", "1", "1", "5", "_", "0", "3", "_", "0", "2", "_", "0", "1">>

\* --------------------------------------------------- pending flag and tag
\* C21: on the USB-BOT backend, receiving a status (recv_csw) while the
\* pending flag is false fails with NoTransferPending, performs no bulk read
\* and leaves the tag and the pending flag unchanged.
C21_RecvInIdle ==
    (UsbReturned /\ last.op = "recv_csw" /\ ~last.pending0) =>
        /\ last.res = Err("NoTransferPending")
        /\ last.io = <<>>
        /\ tag = last.tag0
        /\ pending = last.pending0

C21_Witness ==
    /\ UsbReturned /\ last.op = "recv_csw" /\ ~last.pending0
    /\ last.res = Err("NoTransferPending") /\ nops = 2

\* the last operation failed after its CBW was written
FailedAfterCbw == UsbReturned /\ CbwWritten(last.io) /\ last.res # Ok

\* C22: on the USB-BOT backend the pending flag is cleared only by a CSW that
\* passes every check: an operation that fails after its CBW was written
\* (data phase, CSW read or CSW validation) returns with the flag set, no
\* operation clears a flag it found set, and every transfer started with the
\* flag set and a CDB of at most 16 bytes fails with TransferStillPending and
\* performs no I/O.
C22_PendingStaysSet ==
    /\ [](FailedAfterCbw => pending)
    /\ []((UsbReturned /\ last.pending0 /\ Len(last.cdb) <= 16) =>
              (last.res = Err("TransferStillPending") /\ last.io = <<>> /\ pending))
    /\ []((UsbReturned /\ ~last.pending0 /\ CbwWritten(last.io) /\ ~pending) =>
              (last.res = Ok /\ \E b \in CswsReceived : ValidCswFor(b)))
    /\ [][(backend = "usb" /\ pending) => pending']_vars

C22_Witness ==
    /\ UsbReturned /\ last.pending0 /\ pending
    /\ last.op = "transfer" /\ Len(last.cdb) = 6
    /\ last.res = Err("TransferStillPending")
    /\ nops = 3 /\ wire = <<"cbw">> /\ Len(cbwTags) = 1

\* C23: no sequence of calls to the three public USB-BOT transfer operations
\* returns NoTransferPending: every CSW read of an operation comes after a
\* successful CBW write of the same operation and is made with the pending
\* flag set.
C23_NeverNoTransferPending ==
    (UsbReturned /\ last.op \in {"transfer", "transfer_to_device", "transfer_from_device"}) =>
        /\ last.res # Err("NoTransferPending")
        /\ \A i \in IoAt(last.io, "csw") :
               /\ last.io[i].pending
               /\ \E j \in IoAt(last.io, "cbw") : j < i /\ last.io[j].ok
        /\ (~last.pending0 /\ last.io # <<>> /\ \A i \in 1..Len(last.io) : last.io[i].ok)
               => IoAt(last.io, "csw") # {}

C23_Witness ==
    /\ UsbReturned /\ last.op = "transfer" /\ ~last.pending0
    /\ last.res = Err("InvalidCSW")
    /\ Len(last.io) = 2 /\ last.io[2].site = "csw" /\ last.io[2].pending

\* C24: on the USB-BOT backend the CDB length is tested before the pending
\* flag: a transfer started with a CDB longer than 16 bytes while the flag is
\* set fails with InvalidCDB, not TransferStillPending, with no I/O and with
\* tag and pending flag unchanged.
C24_LengthBeforePending ==
    (UsbReturned /\ last.pending0 /\ Len(last.cdb) > 16) =>
        /\ last.res = Err("InvalidCDB")
        /\ last.io = <<>>
        /\ tag = last.tag0
        /\ pending

C24_Witness ==
    /\ UsbReturned /\ last.pending0 /\ Len(last.cdb) = 17
    /\ last.op = "transfer_from_device"
    /\ last.res = Err("InvalidCDB") /\ pending

\* x + 2 modulo 2^32
PlusTwo(x) == wrapping_add_one(wrapping_add_one(x))

\* C25: on the USB-BOT backend the tag is incremented before the CBW is
\* written and is not restored: when the CBW write fails the operation returns
\* that transport error with the pending flag false, no data phase and no CSW
\* read, and the tag one higher than before, so that the CBW after a failed
\* write carries a tag 2 higher than the CBW written before it.
C25_TagKeptOnFailedWrite ==
    /\ (UsbReturned /\ last.io # <<>> /\ last.io[1].site = "cbw" /\ ~last.io[1].ok) =>
           /\ last.res = Err("USB")
           /\ Len(last.io) = 1
           /\ ~pending /\ ~last.pending0
           /\ tag = wrapping_add_one(last.tag0)
           /\ WireTag(last.io[1].bytes) = tag
    /\ backend = "usb" =>
           \A k \in 1..(Len(cbwTags) - 2) :
               (cbwOk[k] /\ ~cbwOk[k + 1]) => cbwTags[k + 2] = PlusTwo(cbwTags[k])

C25_Witness ==
    /\ UsbReturned /\ cbwOk = <<TRUE, FALSE, TRUE>>
    /\ cbwTags[3] = PlusTwo(cbwTags[1])
    /\ last.res = Ok

====
